---- MODULE Spec2Model ----
(***************************************************************************)
(* Model of the dlt ingestion pipeline for IoT temperature CSV files       *)
(* (dlt_ingest/iot_temperature_pipeline.py): the two dlt resources         *)
(* load_temperature_files and log_file_processing, the CSV loader with     *)
(* encoding fallbacks, the format transformations and the file hash.       *)
(*                                                                         *)
(* Cells of a DataFrame are records [k, s, n]: k is the kind ("str",       *)
(* "num", "nan", "ts" for a parsed timestamp, "nat" for NaT), s the text   *)
(* as a sequence of tokens (single characters, or words that the code      *)
(* treats as a unit), n the number.  Temperatures are whole degrees; the   *)
(* synthetic humidity, battery level and signal strength are in            *)
(* thousandths, so that rounding to one decimal is rounding to hundreds.   *)
(***************************************************************************)
EXTENDS Integers, Sequences, FiniteSets, TLC

VARIABLES
    landing,    \* the landing zone: file name -> file, or NoFile
    run,        \* number of the current invocation of run_iot_temperature_pipeline
    phase,      \* "running" | "completed" | "raised": state of pipeline.run(source)
    ld,         \* the generator load_temperature_files
    lg,         \* the generator log_file_processing
    emitted,    \* records yielded to raw_temperature_readings, all runs
    log,        \* records yielded to file_processing_log, all runs
    finished,   \* how the earlier runs ended, in order
    console,    \* per file of this run: the message the load loop printed for it
    attempts,   \* per file of this run: the encodings read_csv was called with
    rng,        \* state of numpy's global generator (np.random)
    subject,    \* transformation harness: the DataFrame under test
    last,       \* transformation harness: the latest call and its result
    ref         \* transformation harness: an earlier result for subject

pipeVars == <<landing, run, phase, ld, lg, emitted, log, finished, console, attempts>>
harnessVars == <<subject, last, ref>>
vars == <<landing, run, phase, ld, lg, emitted, log, finished, console, attempts,
          rng, subject, last, ref>>

----------------------------------------------------------------------------
(* Bounds of the model *)

MaxFiles == 2
MaxRuns == 2
MaxRows == 3

(* numpy's generator: the model's generator has RngMod states *)
RngMod == 8
Seed == 42

----------------------------------------------------------------------------
(* Cells *)

Str(toks) == [k |-> "str", s |-> toks, n |-> 0]
Num(i) == [k |-> "num", s |-> <<>>, n |-> i]
NaN == [k |-> "nan", s |-> <<>>, n |-> 0]
Ts(i) == [k |-> "ts", s |-> <<>>, n |-> i]
NaT == [k |-> "nat", s |-> <<>>, n |-> 0]

\* pd.notna
notna(c) == c.k \notin {"nan", "nat"}

Range(f) == {f[i] : i \in DOMAIN f}

Min(a, b) == IF a < b THEN a ELSE b
Max(a, b) == IF a > b THEN a ELSE b

\* np.clip
clip(v, lo, hi) == Max(lo, Min(v, hi))

\* ndarray.round(1) of a value in thousandths: to the nearest tenth, halves to even
\* (\div and % round towards minus infinity, so this serves negative values too)
round1(v) ==
    LET q == v \div 100
        r == v % 100
    IN  IF r > 50 \/ (r = 50 /\ q % 2 = 1) THEN (q + 1) * 100 ELSE q * 100

----------------------------------------------------------------------------
(* DataFrames: [cols: the set of column names, rows: sequence of            *)
(* [idx: the index label, data: column name -> cell]]                       *)

expected_columns == {"device_id", "timestamp", "temperature"}
kaggle_columns == {"id", "room_id/id", "noted_date", "temp", "out/in"}

len(df) == Len(df.rows)

\* DataFrame.empty
empty(df) == df.cols = {} \/ df.rows = <<>>

\* str.upper on the characters the model uses
upper(ch) ==
    CASE ch = "a" -> "A"
      [] ch = "b" -> "B"
      [] OTHER -> ch

\* the part of s after its last "_": str.split('_')[-1]
RECURSIVE splitLast(_)
splitLast(s) ==
    IF s = <<>> THEN <<>>
    ELSE IF s[Len(s)] = "_" THEN <<>>
    ELSE Append(splitLast(SubSeq(s, 1, Len(s) - 1)), s[Len(s)])

\* s[:8]
first8(s) == SubSeq(s, 1, Min(8, Len(s)))

\* line 153: the device id of an id cell
device_id(x) ==
    IF notna(x)
    THEN Str(<<"IOT_TEMP_">> \o [i \in 1..Len(first8(splitLast(x.s))) |->
                                    upper(first8(splitLast(x.s))[i])])
    ELSE Str(<<"IOT_TEMP_UNKNOWN">>)

\* pd.to_datetime(format='%d-%m-%Y %H:%M', errors='coerce') of one cell
to_datetime(c) ==
    IF c.k = "str" /\ c.s = <<"28-07-2018 12:00">> THEN Ts(1)
    ELSE IF c.k = "str" /\ c.s = <<"29-07-2018 08:30">> THEN Ts(2)
    ELSE NaT

\* astype(float) of one cell raises ValueError on text that is no number
float_raises(c) == c.k = "str"

\* str.replace('Room ', '').replace('Admin', 'Office') on tokens
RECURSIVE replaceRoom(_)
replaceRoom(s) ==
    IF s = <<>> THEN <<>>
    ELSE IF s[1] = "Room " THEN replaceRoom(Tail(s))
    ELSE IF s[1] = "Admin" THEN <<"Office">> \o replaceRoom(Tail(s))
    ELSE <<s[1]>> \o replaceRoom(Tail(s))

\* str.lower on the tokens of the out/in column
lower(tok) ==
    CASE tok = "In" -> "in"
      [] tok = "Out" -> "out"
      [] OTHER -> tok

\* line 164: the location of a row
location(row) ==
    Str(replaceRoom(row["room_id/id"].s) \o <<"_">> \o
        [i \in 1..Len(row["out/in"].s) |-> lower(row["out/in"].s[i])])

\* str.contains('in', case=False, na=False) on tokens
contains_in(c) ==
    c.k = "str" /\ \E i \in 1..Len(c.s) : c.s[i] \in {"in", "In", "Dining", "Admin"}

----------------------------------------------------------------------------
(* numpy's global generator *)

RngStates == 0..(RngMod - 1)

\* np.random.seed
seed(v) == v % RngMod

\* one step of the generator
step(s) == (5 * s + 3) % RngMod

\* the state after n draws
RECURSIVE after(_, _)
after(s, n) == IF n = 0 THEN s ELSE after(step(s), n - 1)

\* the states of n successive draws from state s
draws(s, n) == [i \in 1..n |-> after(s, i)]

\* np.random.normal(0, sigma, n), in thousandths
normal(s, sigma, n) == [i \in 1..n |-> ((draws(s, n)[i] % 5) - 2) * sigma * 1000]

\* np.random.uniform(70, 100, n), in thousandths
uniform(s, n) == [i \in 1..n |-> 70000 + (draws(s, n)[i] % 4) * 10000]

\* np.random.choice(catalog, n)
choice(catalog, s, n) == [i \in 1..n |-> catalog[(draws(s, n)[i] % Len(catalog)) + 1]]

device_types == <<"DHT22", "DS18B20", "SHT30", "BME280", "TMP36">>
firmware_versions == <<"v1.2.3", "v1.2.4", "v1.3.0", "v1.3.1", "v2.0.0">>

----------------------------------------------------------------------------
(* _transform_kaggle_format *)

\* the draws continue from wherever the generator stands
reseed_missing(s) == s

\* line 170: the generator is seeded before the draws of every call
reseed(s) == seed(Seed)

\* lines 179-201: where each column's draws start, in the order of the code:
\* humidity noise, battery base, battery noise, signal noise, device type, firmware
drawStart(s0, n) ==
    [humidity |-> s0,
     base_battery |-> after(s0, n),
     battery_noise |-> after(s0, 2 * n),
     signal |-> after(s0, 3 * n),
     device_type |-> after(s0, 4 * n),
     firmware_version |-> after(s0, 5 * n),
     end |-> after(s0, 6 * n)]

\* lines 152-201: row i (1-based position) of the transformed frame, before dropna
kaggleRow(df, st, i) ==
    LET n == len(df)
        row == df.rows[i].data
        loc == location(row)
        temperature == row["temp"].n
        base_humidity == IF contains_in(loc) THEN 45000 ELSE 65000
        temp_effect == (temperature - 25) * (-1200)
        base_signal == IF contains_in(loc) THEN -55000 ELSE -45000
        time_decay == i - 1
    IN  [idx |-> df.rows[i].idx,
         data |->
           [device_id |-> device_id(row["id"]),
            timestamp |-> to_datetime(row["noted_date"]),
            temperature |-> Num(temperature),
            location |-> loc,
            humidity |-> Num(round1(clip(base_humidity + temp_effect
                                + normal(st.humidity, 8, n)[i], 20000, 95000))),
            battery_level |-> Num(round1(clip(uniform(st.base_battery, n)[i] - time_decay
                                + normal(st.battery_noise, 5, n)[i], 10000, 100000))),
            signal_strength |-> Num(round1(clip(base_signal
                                + normal(st.signal, 10, n)[i], -90000, -20000))),
            device_type |-> Str(<<choice(device_types, st.device_type, n)[i]>>),
            firmware_version |-> Str(<<choice(firmware_versions, st.firmware_version, n)[i]>>)]]

kaggle_out_columns ==
    {"device_id", "timestamp", "temperature", "location", "humidity",
     "battery_level", "signal_strength", "device_type", "firmware_version"}

\* no row is dropped
dropna_nothing(rows) == rows

\* line 205: DataFrame.dropna(subset=['timestamp'])
dropna_timestamp(rows) == SelectSeq(rows, LAMBDA r : notna(r.data["timestamp"]))

\* The result of a transformation: raised (an exception left the function),
\* df (the frame returned), rng (the generator afterwards), removed (the count the
\* function reports for dropped rows, 0 when it prints nothing), format (the
\* branch _transform_to_standard_format announced)
Raised(df, s, fmt) ==
    [raised |-> TRUE, df |-> df, rng |-> s, removed |-> 0, format |-> fmt]

_transform_kaggle_format(df, s) ==
    IF \E i \in 1..len(df) : float_raises(df.rows[i].data["temp"])
    THEN Raised(df, s, "kaggle")     \* line 160 raises before the generator is touched
    ELSE
      LET n == len(df)
          st == drawStart(reseed(s), n)
          all == [i \in 1..n |-> kaggleRow(df, st, i)]
          kept == dropna_timestamp(all)
          initial_count == Len(all)
      IN  [raised |-> FALSE,
           df |-> [cols |-> kaggle_out_columns, rows |-> kept],
           rng |-> st.end,
           removed |-> initial_count - Len(kept),
           format |-> "kaggle"]

----------------------------------------------------------------------------
(* _transform_generic_format *)

\* lines 224-228: the two renames
rename(c) ==
    IF c = "room_id/id" THEN "room_id_id"
    ELSE IF c = "out/in" THEN "out_in"
    ELSE c

_transform_generic_format(df, s) ==
    LET newCols == {rename(c) : c \in df.cols}
        old(c) == CHOOSE o \in df.cols : rename(o) = c
    IN  [raised |-> FALSE,
         df |-> [cols |-> newCols,
                 rows |-> [i \in 1..len(df) |->
                             [idx |-> df.rows[i].idx,
                              data |-> [c \in newCols |-> df.rows[i].data[old(c)]]]]],
         rng |-> s,
         removed |-> 0,
         format |-> "generic"]

----------------------------------------------------------------------------
(* _transform_to_standard_format *)

\* the Kaggle layout is tested first
transform_kaggle_first(df, s) ==
    IF kaggle_columns \subseteq df.cols
    THEN _transform_kaggle_format(df, s)
    ELSE IF expected_columns \subseteq df.cols
    THEN [raised |-> FALSE, df |-> df, rng |-> s, removed |-> 0, format |-> "standard"]
    ELSE _transform_generic_format(df, s)

_transform_to_standard_format(df, s) ==
    IF expected_columns \subseteq df.cols
    THEN [raised |-> FALSE, df |-> df, rng |-> s, removed |-> 0, format |-> "standard"]
    ELSE IF kaggle_columns \subseteq df.cols
    THEN _transform_kaggle_format(df, s)
    ELSE _transform_generic_format(df, s)

----------------------------------------------------------------------------
(* DataFrames as pd.read_csv returns them: a RangeIndex from 0 *)

Frame(cols, datas) ==
    [cols |-> cols,
     rows |-> [i \in 1..Len(datas) |-> [idx |-> i - 1, data |-> datas[i]]]]

NoFrame == [cols |-> {}, rows |-> <<>>]

KRow(id, room, date, temp, outin) ==
    [c \in kaggle_columns |->
        CASE c = "id" -> id
          [] c = "room_id/id" -> room
          [] c = "noted_date" -> date
          [] c = "temp" -> temp
          [] c = "out/in" -> outin]

\* rows of the Kaggle layout: parseable, unparseable and missing dates, a missing
\* id, an id longer than 8 characters, a temperature that is no number
KaggleRowA ==
    KRow(Str(<<"_", "_", "7">>), Str(<<"Room ", "Admin">>),
         Str(<<"28-07-2018 12:00">>), Num(30), Str(<<"In">>))
KaggleRowB ==
    KRow(Str(<<"a", "_", "b">>), Str(<<"Dining">>),
         Str(<<"2018-07-28">>), Num(90), Str(<<"Out">>))
KaggleRowC ==
    KRow(NaN, Str(<<"Room ", "4">>), NaN, Num(20), Str(<<"Out">>))
KaggleRowD ==
    KRow(Str(<<"x", "_", "1", "2", "3", "4", "5", "6", "7", "8", "9">>),
         Str(<<"Room ", "4">>), Str(<<"29-07-2018 08:30">>), Num(-40), Str(<<"Out">>))
KaggleRowE ==
    KRow(Str(<<"_", "_", "7">>), Str(<<"Room ", "Admin">>),
         Str(<<"28-07-2018 12:00">>), Str(<<"n/a">>), Str(<<"In">>))

KaggleRows == {KaggleRowA, KaggleRowB, KaggleRowC, KaggleRowD, KaggleRowE}

KaggleFrames ==
    {Frame(kaggle_columns, datas) :
        datas \in UNION {[1..n -> KaggleRows] : n \in 1..MaxRows}}

AllColumns == expected_columns \cup kaggle_columns \cup {"extra"}

\* one row of text under every non-empty set of columns
ColumnFrames ==
    {Frame(cols, <<[c \in cols |-> Str(<<"v">>)]>>) : cols \in (SUBSET AllColumns) \ {{}}}

\* the frames of the files transformed around the frame under test
OtherFrames ==
    {Frame(kaggle_columns, <<KaggleRowA>>),
     Frame(kaggle_columns, <<KaggleRowB, KaggleRowD>>),
     Frame({"extra"}, <<[c \in {"extra"} |-> Str(<<"v">>)]>>)}

----------------------------------------------------------------------------
(* Harness for the transformation functions: one process transforms the    *)
(* frame under test and other frames in any order, any number of times.    *)

NoResult == [raised |-> FALSE, df |-> NoFrame, rng |-> 0, removed |-> 0, format |-> "none"]
\* a call: its frame, the generator's state when it was made (pre), its result
NoCall == [called |-> FALSE, df |-> NoFrame, pre |-> 0, res |-> NoResult]

Call(df) ==
    LET res == _transform_to_standard_format(df, rng)
        call == [called |-> TRUE, df |-> df, pre |-> rng, res |-> res]
    IN  /\ rng' = res.rng
        /\ last' = call
        /\ ref' = IF df = subject /\ ~ref.called THEN call ELSE ref

TransformSubject ==
    /\ Call(subject)
    /\ UNCHANGED <<subject, pipeVars>>

TransformOther ==
    /\ \E df \in OtherFrames : Call(df)
    /\ UNCHANGED <<subject, pipeVars>>

PipeOff ==
    /\ landing = <<>>
    /\ run = 0
    /\ phase = "off"
    /\ ld = <<>>
    /\ lg = <<>>
    /\ emitted = <<>>
    /\ log = <<>>
    /\ finished = <<>>
    /\ console = <<>>
    /\ attempts = <<>>

\* the frames under test for the synthetic columns: rows indoors and outdoors,
\* hot and cold, with and without a date
SynthFrames ==
    {Frame(kaggle_columns, datas) :
        datas \in UNION {[1..n -> {KaggleRowA, KaggleRowC, KaggleRowD}] : n \in 1..MaxRows}}

\* the generator of a fresh process is in any state
InitTransform ==
    /\ PipeOff
    /\ rng \in RngStates
    /\ subject \in SynthFrames
    /\ last = NoCall
    /\ ref = NoCall

NextTransform == TransformSubject \/ TransformOther

SpecTransform == InitTransform /\ [][NextTransform]_vars

(* Harness for one call of _transform_to_standard_format on a frame of any   *)
(* set of columns, or on any frame of the Kaggle layout.                     *)

InitOneCall ==
    /\ PipeOff
    /\ rng \in RngStates
    /\ subject \in ColumnFrames \cup KaggleFrames
    /\ last = NoCall
    /\ ref = NoCall

NextOneCall == ~last.called /\ TransformSubject

SpecOneCall == InitOneCall /\ [][NextOneCall]_vars

(* Harness for one call of _transform_to_standard_format on a frame of an   *)
(* unknown layout, whose column names may hold a "/".                        *)

GenericColumns == {"room_id/id", "out/in", "sensor/type", "id", "extra"}

\* every cell holds the name of its column and the number of its row
GenericFrames ==
    {Frame(cols, [i \in 1..n |-> [c \in cols |-> [k |-> "str", s |-> <<c>>, n |-> i]]]) :
        cols \in (SUBSET GenericColumns) \ {{}}, n \in 1..MaxRows}

InitGeneric ==
    /\ PipeOff
    /\ rng \in RngStates
    /\ subject \in GenericFrames
    /\ last = NoCall
    /\ ref = NoCall

SpecGeneric == InitGeneric /\ [][NextOneCall]_vars

----------------------------------------------------------------------------
(* Files of the landing zone.  A file is [st, size, okEnc, df]: st is "ok",  *)
(* "unreadable" (open raises, stat works), "dangling" (a link whose target   *)
(* is gone: glob lists it, open and stat raise) or "absent"; okEnc is the    *)
(* set of encodings under which pd.read_csv parses the bytes and df the      *)
(* frame it then returns.                                                    *)

encodings == <<"utf-8", "utf-8-sig", "latin1", "cp1252", "iso-8859-1">>

FileNames == 1..MaxFiles

File(st, size, okEnc, df) == [st |-> st, size |-> size, okEnc |-> okEnc, df |-> df]

NoFile == File("absent", 0, {}, NoFrame)

\* the bytes of a file, as far as the pipeline can tell them apart
Bytes(f) == [size |-> f.size, okEnc |-> f.okEnc, df |-> f.df]

NoBytes == [size |-> 0, okEnc |-> {}, df |-> NoFrame]

StdRow(dev, temp) ==
    [c \in expected_columns |->
        CASE c = "device_id" -> Str(<<dev>>)
          [] c = "timestamp" -> Str(<<"2018-07-28T12:00">>)
          [] c = "temperature" -> Num(temp)]

\* the files a landing zone holds in the model
StandardFile ==
    File("ok", 60, Range(encodings),
         Frame(expected_columns, <<StdRow("A", 21), StdRow("B", 22)>>))
KaggleFile ==
    File("ok", 90, {"latin1", "cp1252", "iso-8859-1"},
         Frame(kaggle_columns, <<KaggleRowA, KaggleRowB, KaggleRowD>>))
BadTempFile ==
    File("ok", 40, Range(encodings), Frame(kaggle_columns, <<KaggleRowE>>))
GenericFile ==
    File("ok", 20, Range(encodings),
         Frame({"extra", "out/in"}, <<[c \in {"extra", "out/in"} |-> Str(<<"v">>)]>>))
HeaderOnlyFile ==
    File("ok", 10, Range(encodings), [cols |-> expected_columns, rows |-> <<>>])
GarbageFile == File("ok", 0, {}, NoFrame)
UnreadableFile == File("unreadable", 60, {}, NoFrame)
DanglingFile == File("dangling", 0, {}, NoFrame)

FileKinds ==
    {StandardFile, KaggleFile, BadTempFile, GenericFile, HeaderOnlyFile,
     GarbageFile, UnreadableFile, DanglingFile, NoFile}

----------------------------------------------------------------------------
(* _calculate_file_hash *)

Sha256(bytes) == [kind |-> "sha256", bytes |-> bytes, name |-> 0, size |-> 0]
ErrorId(name, size) == [kind |-> "error", bytes |-> NoBytes, name |-> name, size |-> size]
NoHash == [kind |-> "none", bytes |-> NoBytes, name |-> 0, size |-> 0]

\* Path.stat() raises for a file that is not there
stat_raises(f) == f.st \in {"dangling", "absent"}

\* [raised, value]: the digest of the bytes; when reading raises, the handler
\* builds the fallback from the name and stat().st_size, and stat may raise too
_calculate_file_hash(name, f) ==
    IF f.st = "ok" THEN [raised |-> FALSE, value |-> Sha256(Bytes(f))]
    ELSE IF stat_raises(f) THEN [raised |-> TRUE, value |-> NoHash]
    ELSE [raised |-> FALSE, value |-> ErrorId(name, f.size)]

\* lines 248-252: the processed file hashes
_get_processed_files == {}

----------------------------------------------------------------------------
(* _load_csv_with_fallback *)

\* pd.read_csv(file_path, encoding=enc) returns a frame (else it raises
\* UnicodeDecodeError or another exception, and the loop goes on)
read_csv_ok(f, enc) == f.st = "ok" /\ enc \in f.okEnc

\* the loop from the i-th encoding on: [none, df, encoding, tried], tried being
\* the encodings read_csv was called with
RECURSIVE loadFrom(_, _, _)
loadFrom(f, encs, i) ==
    IF i > Len(encs)
    THEN [none |-> TRUE, df |-> NoFrame, encoding |-> "none", tried |-> <<>>]
    ELSE IF read_csv_ok(f, encs[i])
    THEN [none |-> FALSE, df |-> f.df, encoding |-> encs[i], tried |-> <<encs[i]>>]
    ELSE LET rest == loadFrom(f, encs, i + 1)
         IN  [rest EXCEPT !.tried = <<encs[i]>> \o rest.tried]

\* latin1 is tried before the UTF-8 encodings
load_csv_latin1_first(f) ==
    loadFrom(f, <<"latin1", "utf-8", "utf-8-sig", "cp1252", "iso-8859-1">>, 1)

_load_csv_with_fallback(f) == loadFrom(f, encodings, 1)

----------------------------------------------------------------------------
(* iot_temperature_source: the generators of the two resources, run by      *)
(* pipeline.run(source), which draws from them in an order of its choosing  *)
(* and raises when one of them raises.                                       *)

\* list(landing_zone.glob("*.csv")): the files there, in the order the
\* directory lists them
Present == {name \in FileNames : landing[name].st # "absent"}

Globs ==
    {s \in UNION {[1..n -> Present] : n \in {Cardinality(Present)}} :
        \A i, j \in DOMAIN s : i # j => s[i] # s[j]}

NoAttempt == [called |-> FALSE, none |-> FALSE, df |-> NoFrame,
              encoding |-> "none", tried |-> <<>>]

LoadStart ==
    [pc |-> "start", exc |-> "none", csv_files |-> <<>>, i |-> 1,
     processed_files |-> {}, file_hash |-> NoHash, rows |-> <<>>, k |-> 1]

LogStart == [pc |-> "start", exc |-> "none", csv_files |-> <<>>, i |-> 1]

\* lines 27-31: the first resumption of load_temperature_files
StartLoad ==
    /\ phase = "running"
    /\ ld.pc = "start"
    /\ \E files \in Globs :
         ld' = [ld EXCEPT !.pc = "loop", !.csv_files = files,
                          !.processed_files = _get_processed_files]
    /\ UNCHANGED <<landing, run, phase, lg, emitted, log, finished, console,
                   attempts, rng, harnessVars>>

\* lines 34-62 for one file: what the loop body does up to its first yield.
\* msg is what it prints for the file: "skipping" (line 38), "empty" (line 48),
\* "error" (line 80), or "rows" when the frame is ready to be yielded.
LoadBody(name, f, processed_files, s) ==
    LET h == _calculate_file_hash(name, f)
        r == _load_csv_with_fallback(f)
        t == _transform_to_standard_format(r.df, s)
        base == [exc |-> "none", msg |-> "skipping", hash |-> h.value,
                 attempt |-> NoAttempt, rows |-> <<>>, rng |-> s]
        tried == [called |-> TRUE, none |-> r.none, df |-> r.df,
                  encoding |-> r.encoding, tried |-> r.tried]
    IN  IF h.raised THEN [base EXCEPT !.exc = "hash", !.msg = "none"]
        ELSE IF h.value \in processed_files THEN base
        ELSE IF r.none \/ empty(r.df)
        THEN [base EXCEPT !.msg = "empty", !.attempt = tried]
        ELSE IF t.raised
        THEN [base EXCEPT !.msg = "error", !.attempt = tried, !.rng = t.rng]
        ELSE [base EXCEPT !.msg = "rows", !.attempt = tried, !.rng = t.rng,
                          !.rows = t.df.rows]

\* a resumption of load_temperature_files at the head of the loop
LoadFile ==
    /\ phase = "running"
    /\ ld.pc = "loop"
    /\ ld.i <= Len(ld.csv_files)
    /\ LET name == ld.csv_files[ld.i]
           b == LoadBody(name, landing[name], ld.processed_files, rng)
       IN  /\ phase' = IF b.exc # "none" THEN "raised" ELSE phase
           /\ ld' = IF b.exc # "none" THEN [ld EXCEPT !.pc = "raised", !.exc = b.exc]
                    ELSE IF b.msg = "rows"
                    THEN [ld EXCEPT !.pc = "rows", !.file_hash = b.hash,
                                    !.rows = b.rows, !.k = 1]
                    ELSE [ld EXCEPT !.i = @ + 1]
           /\ console' = IF b.msg \in {"skipping", "empty", "error"}
                         THEN [console EXCEPT ![name] = b.msg]
                         ELSE console
           /\ attempts' = [attempts EXCEPT ![name] = b.attempt]
           /\ rng' = b.rng
    /\ UNCHANGED <<landing, run, lg, emitted, log, finished, harnessVars>>

\* lines 65-75: the next row of the file is yielded
YieldRecord ==
    /\ phase = "running"
    /\ ld.pc = "rows"
    /\ ld.k <= Len(ld.rows)
    /\ LET name == ld.csv_files[ld.i]
           row == ld.rows[ld.k]
           record == [run |-> run,
                      file_record_id |-> [hash |-> ld.file_hash, idx |-> row.idx],
                      row_number |-> row.idx + 1,
                      file_name |-> name,
                      file_size_bytes |-> landing[name].size,
                      file_hash |-> ld.file_hash,
                      total_records |-> Len(ld.rows),
                      row |-> row.data]
       IN  emitted' = Append(emitted, record)
    /\ ld' = [ld EXCEPT !.k = @ + 1]
    /\ UNCHANGED <<landing, run, phase, lg, log, finished, console, attempts,
                   rng, harnessVars>>

\* line 77: all rows of the file are yielded
FinishFile ==
    /\ phase = "running"
    /\ ld.pc = "rows"
    /\ ld.k > Len(ld.rows)
    /\ console' = [console EXCEPT ![ld.csv_files[ld.i]] = "processed"]
    /\ ld' = [ld EXCEPT !.pc = "loop", !.i = @ + 1, !.rows = <<>>, !.k = 1,
                        !.file_hash = NoHash]
    /\ UNCHANGED <<landing, run, phase, lg, emitted, log, finished, attempts,
                   rng, harnessVars>>

\* line 33: the loop is over, the generator returns
LoadReturn ==
    /\ phase = "running"
    /\ ld.pc = "loop"
    /\ ld.i > Len(ld.csv_files)
    /\ ld' = [ld EXCEPT !.pc = "done"]
    /\ UNCHANGED <<landing, run, phase, lg, emitted, log, finished, console,
                   attempts, rng, harnessVars>>

\* lines 90-91: the first resumption of log_file_processing
StartLog ==
    /\ phase = "running"
    /\ lg.pc = "start"
    /\ \E files \in Globs : lg' = [lg EXCEPT !.pc = "loop", !.csv_files = files]
    /\ UNCHANGED <<landing, run, phase, ld, emitted, log, finished, console,
                   attempts, rng, harnessVars>>

\* lines 93-102: the entry of the next file is yielded; stat (line 97) raises
\* for a file that is not there, before the hash is taken
LogFile ==
    /\ phase = "running"
    /\ lg.pc = "loop"
    /\ lg.i <= Len(lg.csv_files)
    /\ LET name == lg.csv_files[lg.i]
           f == landing[name]
           h == _calculate_file_hash(name, f)
           exc == IF stat_raises(f) THEN "stat"
                  ELSE IF h.raised THEN "hash" ELSE "none"
       IN  /\ phase' = IF exc # "none" THEN "raised" ELSE phase
           /\ lg' = IF exc # "none" THEN [lg EXCEPT !.pc = "raised", !.exc = exc]
                    ELSE [lg EXCEPT !.i = @ + 1]
           /\ log' = IF exc # "none" THEN log
                     ELSE Append(log, [run |-> run,
                                       file_name |-> name,
                                       file_size_bytes |-> f.size,
                                       file_hash |-> h.value,
                                       status |-> "processed"])
    /\ UNCHANGED <<landing, run, ld, emitted, finished, console, attempts,
                   rng, harnessVars>>

\* line 93: the loop is over, the generator returns
LogReturn ==
    /\ phase = "running"
    /\ lg.pc = "loop"
    /\ lg.i > Len(lg.csv_files)
    /\ lg' = [lg EXCEPT !.pc = "done"]
    /\ UNCHANGED <<landing, run, phase, ld, emitted, log, finished, console,
                   attempts, rng, harnessVars>>

\* line 273: both resources are exhausted, pipeline.run returns
RunCompletes ==
    /\ phase = "running"
    /\ ld.pc = "done"
    /\ lg.pc = "done"
    /\ phase' = "completed"
    /\ UNCHANGED <<landing, run, ld, lg, emitted, log, finished, console,
                   attempts, rng, harnessVars>>

\* lines 255-273: the pipeline is run again over the same landing zone
NextRun ==
    /\ phase \in {"completed", "raised"}
    /\ run < MaxRuns
    /\ run' = run + 1
    /\ phase' = "running"
    /\ finished' = Append(finished, phase)
    /\ ld' = LoadStart
    /\ lg' = LogStart
    /\ console' = [name \in FileNames |-> "none"]
    /\ attempts' = [name \in FileNames |-> NoAttempt]
    /\ UNCHANGED <<landing, emitted, log, rng, harnessVars>>

HarnessOff ==
    /\ subject = NoFrame
    /\ last = NoCall
    /\ ref = NoCall

PipeStart ==
    /\ run = 1
    /\ phase = "running"
    /\ ld = LoadStart
    /\ lg = LogStart
    /\ emitted = <<>>
    /\ log = <<>>
    /\ finished = <<>>
    /\ console = [name \in FileNames |-> "none"]
    /\ attempts = [name \in FileNames |-> NoAttempt]

Init ==
    /\ landing \in [FileNames -> FileKinds]
    /\ PipeStart
    /\ rng \in RngStates
    /\ HarnessOff

Next ==
    \/ StartLoad
    \/ LoadFile
    \/ YieldRecord
    \/ FinishFile
    \/ LoadReturn
    \/ StartLog
    \/ LogFile
    \/ LogReturn
    \/ RunCompletes
    \/ NextRun

Spec == Init /\ [][Next]_vars

(* The pipeline over one file of any decoding behaviour: the bytes parse     *)
(* under any subset of the encodings, to a frame with rows or without.       *)

DecodeFiles ==
    {File("ok", 60, okEnc, df) :
        okEnc \in SUBSET Range(encodings),
        df \in {Frame(expected_columns, <<StdRow("A", 21)>>),
                [cols |-> expected_columns, rows |-> <<>>]}}
    \cup {UnreadableFile}

InitDecode ==
    /\ landing \in {l \in [FileNames -> DecodeFiles \cup {NoFile}] :
                      l[1] # NoFile /\ \A name \in FileNames \ {1} : l[name] = NoFile}
    /\ PipeStart
    /\ rng \in RngStates
    /\ HarnessOff

SpecDecode == InitDecode /\ [][Next]_vars

----------------------------------------------------------------------------
(* Properties of the transformations *)

synthetic_columns ==
    {"humidity", "battery_level", "signal_strength", "device_type", "firmware_version"}

\* the synthetic columns of a transformed frame, row by row
Synthetic(df) ==
    [i \in 1..len(df) |->
        [idx |-> df.rows[i].idx,
         data |-> [c \in synthetic_columns |-> df.rows[i].data[c]]]]

\* C6: every transformation of the frame under test yields the synthetic columns
\* its first transformation yielded, whatever was transformed in between and
\* whatever state the generator was in
C6_TransformerDeterminism ==
    (last.called /\ ref.called /\ last.df = subject /\ last.res.format = "kaggle")
        => /\ last.res.raised = ref.res.raised
           /\ ~last.res.raised => Synthetic(last.res.df) = Synthetic(ref.res.df)

\* C6 witness: the frame under test was transformed again, with rows to show,
\* from another state of the generator than the first time
C6_Witness ==
    /\ last.called /\ ref.called /\ last.df = subject
    /\ last.res.format = "kaggle" /\ ~last.res.raised
    /\ len(last.res.df) >= 2
    /\ last.pre # ref.pre
    /\ last.pre # seed(Seed)

\* C7: the dispatch is total, exclusive and ordered: the standard format exactly
\* for a superset of the expected columns, else the Kaggle format exactly for a
\* superset of the Kaggle columns, else the generic one; a frame in the standard
\* format is returned as it is
C7_ClassificationOrdered ==
    last.called =>
        LET cols == last.df.cols
            fmt == last.res.format
        IN  /\ fmt \in {"standard", "kaggle", "generic"}
            /\ (fmt = "standard") <=> (expected_columns \subseteq cols)
            /\ (fmt = "kaggle") <=> (~(expected_columns \subseteq cols)
                                      /\ kaggle_columns \subseteq cols)
            /\ (fmt = "generic") <=> (~(expected_columns \subseteq cols)
                                       /\ ~(kaggle_columns \subseteq cols))
            /\ (fmt = "standard") => (~last.res.raised /\ last.res.df = last.df
                                       /\ last.res.rng = last.pre)

\* C7 witness: a frame with the expected and the Kaggle columns went the
\* standard way
C7_Witness ==
    /\ last.called
    /\ expected_columns \cup kaggle_columns \subseteq last.df.cols
    /\ last.res.format = "standard"

\* the rows of a read frame whose noted_date parses
Parseable(df) == SelectSeq(df.rows, LAMBDA r : to_datetime(r.data["noted_date"]).k = "ts")

\* C8: a Kaggle frame of n rows, k of them with a null or unparseable
\* noted_date, is transformed to n - k rows, which are the rows with a parseable
\* date in their order, and k is the count reported
C8_DropAccounting ==
    (last.called /\ last.res.format = "kaggle" /\ ~last.res.raised) =>
        LET in == Parseable(last.df)
            out == last.res.df.rows
            n == len(last.df)
            k == n - Len(in)
        IN  /\ Len(out) = n - k
            /\ last.res.removed = k
            /\ \A i \in 1..Len(out) :
                  /\ i <= Len(in)
                  /\ out[i].idx = in[i].idx
                  /\ out[i].data["timestamp"] = to_datetime(in[i].data["noted_date"])
                  /\ out[i].data["temperature"] = in[i].data["temp"]
                  /\ out[i].data["device_id"] = device_id(in[i].data["id"])
                  /\ out[i].data["location"] = location(in[i].data)

\* C8 witness: rows were dropped from between rows that were kept
C8_Witness ==
    /\ last.called /\ last.res.format = "kaggle" /\ ~last.res.raised
    /\ len(last.df) = 3
    /\ last.res.removed = 1
    /\ Len(last.res.df.rows) = 2
    /\ last.res.df.rows[1].idx = 0
    /\ last.res.df.rows[2].idx = 2

----------------------------------------------------------------------------
(* Properties of the pipeline *)

\* the records yielded to raw_temperature_readings for a file in a run
RowsOf(name, r) ==
    {i \in DOMAIN emitted : emitted[i].file_name = name /\ emitted[i].run = r}

\* the entries yielded to file_processing_log for a file in a run
EntriesOf(name, r) ==
    {i \in DOMAIN log : log[i].file_name = name /\ log[i].run = r}

\* the registry of processed files, as the pipeline reads it
Registry == _get_processed_files

\* C1: once a first run has completed, a second run over the same files yields
\* no record to raw_temperature_readings
C1_Idempotency ==
    (finished # <<>> /\ finished[1] = "completed")
        => \A i \in DOMAIN emitted : emitted[i].run # 2

\* C2: a file's hash is in the registry only once all its rows are yielded,
\* a file whose processing succeeded ends the run with its hash in the
\* registry, and a file that failed is never there
C2_CommitAfterEmission ==
    \A name \in Present :
        LET h == _calculate_file_hash(name, landing[name])
        IN  /\ (phase = "completed" /\ console[name] = "processed")
                   => h.value \in Registry
            /\ (~h.raised /\ h.value \in Registry /\ console[name] # "skipping")
                   => console[name] = "processed"

\* C3: no two records yielded to raw_temperature_readings, in any runs, carry
\* the same file_record_id
C3_UniqueRecordIds ==
    \A i, j \in DOMAIN emitted :
        i # j => emitted[i].file_record_id # emitted[j].file_record_id

\* C4: a completed run has yielded one log entry per file, with status skipped
\* for a file skipped as processed before, failed for a file that was empty,
\* undecodable or whose processing raised, and processed only for a file whose
\* rows were yielded
C4_LogStatusMatchesOutcome ==
    phase = "completed" =>
        \A name \in Present :
            /\ Cardinality(EntriesOf(name, run)) = 1
            /\ \A i \in EntriesOf(name, run) :
                  /\ console[name] = "skipping" => log[i].status = "skipped"
                  /\ console[name] \in {"empty", "error"} => log[i].status = "failed"
                  /\ log[i].status = "processed" => console[name] = "processed"

\* a file that fails at a per-file step: reading it for the hash raises, it
\* decodes under no encoding or to an empty frame, or its transformation raises
FailsPerFile(name) ==
    \/ landing[name].st # "ok"
    \/ LET r == _load_csv_with_fallback(landing[name])
       IN  \/ r.none
           \/ empty(r.df)
           \/ _transform_to_standard_format(r.df, 0).raised

\* C5: when a file fails at a per-file step the run does not abort, and it
\* ends with every file that does not fail processed and its rows yielded
C5_FailureIsolation ==
    (\E name \in Present : FailsPerFile(name)) =>
        /\ phase # "raised"
        /\ phase = "completed" =>
              \A name \in Present :
                  ~FailsPerFile(name) =>
                      /\ console[name] = "processed"
                      /\ RowsOf(name, run) # {}

\* C9: _calculate_file_hash returns a value for every file the scan lists, and
\* no exception leaves it
C9_HasherNeverRaises ==
    /\ ld.exc # "hash"
    /\ lg.exc # "hash"

\* the smallest element of a non-empty set of numbers
Least(S) == CHOOSE m \in S : \A x \in S : m <= x

\* C10: the loader tries utf-8, utf-8-sig, latin1, cp1252, iso-8859-1 in this
\* order up to the first that parses and returns its frame; it returns None,
\* raising nothing, exactly when none parses; a file that decodes to None or to
\* an empty frame is reported empty and yields no row
C10_DecoderFallbackOrder ==
    \A name \in Present :
        attempts[name].called =>
            LET a == attempts[name]
                f == landing[name]
                order == <<"utf-8", "utf-8-sig", "latin1", "cp1252", "iso-8859-1">>
                ok == {i \in 1..5 : f.st = "ok" /\ order[i] \in f.okEnc}
            IN  /\ a.none <=> ok = {}
                /\ ok = {} => a.tried = order
                /\ ok # {} => /\ a.encoding = order[Least(ok)]
                              /\ a.tried = SubSeq(order, 1, Least(ok))
                              /\ a.df = f.df
                /\ ld.exc = "none"
                /\ (a.none \/ empty(a.df)) => /\ console[name] = "empty"
                                              /\ RowsOf(name, run) = {}
                /\ (~a.none /\ ~empty(a.df) /\ phase = "completed")
                       => console[name] \in {"processed", "error"}

\* C10 witness: the UTF-8 encodings failed, latin1 parsed and later encodings
\* would have parsed too; the file's rows were yielded
C10_Witness ==
    /\ attempts[1].called
    /\ landing[1].okEnc = {"latin1", "cp1252", "iso-8859-1"}
    /\ attempts[1].encoding = "latin1"
    /\ attempts[1].tried = <<"utf-8", "utf-8-sig", "latin1">>
    /\ console[1] = "processed"
    /\ RowsOf(1, run) # {}

----------------------------------------------------------------------------
(* Properties of the generic transformation and of the scan *)

\* the column names of the model that hold a "/"
has_slash(c) == c \in {"room_id/id", "out/in", "sensor/type"}

\* a column name with every "/" turned into "_"
underscored(c) ==
    CASE c = "room_id/id" -> "room_id_id"
      [] c = "out/in" -> "out_in"
      [] c = "sensor/type" -> "sensor_type"
      [] OTHER -> c

\* C11: a frame of the generic layout comes back with every "/" of its column
\* names turned into "_", its other column names as they were, and its rows
\* and cell values as they were
C11_GenericHeaderSanitization ==
    (last.called /\ last.res.format = "generic") =>
        LET in == last.df
            out == last.res.df
        IN  /\ ~last.res.raised
            /\ \A c \in out.cols : ~has_slash(c)
            /\ out.cols = {underscored(c) : c \in in.cols}
            /\ len(out) = len(in)
            /\ \A i \in 1..len(in) :
                  /\ i <= len(out)
                  /\ out.rows[i].idx = in.rows[i].idx
                  /\ \A c \in in.cols :
                        underscored(c) \in out.cols
                            => out.rows[i].data[underscored(c)] = in.rows[i].data[c]

\* the file names of a sequence ascend
Ascending(s) == \A i, j \in DOMAIN s : i < j => s[i] < s[j]

\* the files of the records of a run, in the order they were yielded
RunOrder(records, r) ==
    LET mine == SelectSeq(records, LAMBDA e : e.run = r)
    IN  [i \in 1..Len(mine) |-> mine[i].file_name]

\* C12: the files are processed and logged in ascending order of their names,
\* so in the same order in every run, and a landing zone without files yields
\* no row and no log entry and raises nothing
C12_DeterministicScanOrder ==
    /\ Ascending(ld.csv_files)
    /\ Ascending(lg.csv_files)
    /\ \A r \in 1..run :
          /\ \A i, j \in DOMAIN RunOrder(emitted, r) :
                i < j => RunOrder(emitted, r)[i] <= RunOrder(emitted, r)[j]
          /\ Ascending(RunOrder(log, r))
    /\ Present = {} => /\ emitted = <<>>
                       /\ log = <<>>
                       /\ phase # "raised"

====
